---- MODULE Spec2Model ----
(***************************************************************************)
(* Registry credential resolution of container/trust.go: the environment  *)
(* backend, the docker-config backend, the backend chain firstValidAuth,   *)
(* the encoder and the rejection handler.                                  *)
(*                                                                         *)
(* Go strings that the code only compares are TLA+ strings; a repository  *)
(* reference, which the code parses and splits, is a sequence of           *)
(* one-character strings.  A *types.AuthConfig is a sequence of length 0   *)
(* (nil) or 1 (a pointer to the value).  An error is a string, NoErr      *)
(* being Go's nil error.                                                   *)
(***************************************************************************)
EXTENDS Integers, Sequences, FiniteSets, TLC

VARIABLES env, disk, pc, last

vars == <<env, disk, pc, last>>

\* Longest list of backends handed to firstValidAuth.
MaxBackends == 2

-----------------------------------------------------------------------------
(* Values *)

NoErr == "nil"
ReferenceParseError == "ReferenceParseError"
ConfigLoadError == "ConfigLoadError"
StoreLookupError == "StoreLookupError"
EncodingError == "EncodingError"

\* types.AuthConfig{Username, Password}; ZeroAuth is types.AuthConfig{}.
AuthConfig(u, p) == [Username |-> u, Password |-> p]
ZeroAuth == AuthConfig("", "")
NilAuth == <<>>
Ptr(a) == <<a>>

StoredAuth == AuthConfig("su", "sp")

\* The process environment.
EnvNames == {"REPO_USER", "REPO_PASS", "DOCKER_CONFIG"}
EnvValues(n) ==
  CASE n = "REPO_USER" -> {"", "u"}
    [] n = "REPO_PASS" -> {"", "p"}
    [] n = "DOCKER_CONFIG" -> {"", "/d"}
Getenv(e, n) == e[n]

\* Repository references: host/name, bare name, name:tag, malformed.
RefHostName == <<"h", "/", "n">>
RefBare == <<"g">>
RefTagged == <<"g", ":", "t">>
RefBad == <<"h", "/", "!">>
Refs == {RefHostName, RefBare, RefTagged, RefBad}

\* configfile.ConfigFile: the two fields the code reads.
NoHelpers == [s \in {} |-> ""]
HostHelper == [s \in {<<"h">>} |-> "pass"]
ConfigFiles ==
  [CredentialsStore : {"", "osxkeychain"}, CredentialHelpers : {NoHelpers, HostHelper}]

\* Result of cliconfig.Load(dir): (*ConfigFile, error).
LoadOk(cf) == [configFile |-> <<cf>>, err |-> NoErr]
LoadFailed == [configFile |-> <<>>, err |-> ConfigLoadError]
LoadResults == {LoadOk(cf) : cf \in ConfigFiles} \cup {LoadFailed}
Dirs == {"/", "/d"}

\* Result of credentials.Store.Get(server): (types.AuthConfig, error).
GetResults == [auth : {ZeroAuth, StoredAuth}, err : {NoErr, StoreLookupError}]

-----------------------------------------------------------------------------
(* Reference parsing *)

RECURSIVE IndexOf(_, _, _)
\* Least i >= from with s[i] = c, or 0.
IndexOf(s, c, from) ==
  IF from > Len(s) THEN 0
  ELSE IF s[from] = c THEN from
  ELSE IndexOf(s, c, from + 1)

RECURSIVE LastIndexOf(_, _, _)
\* Greatest i <= from with s[i] = c, or 0.
LastIndexOf(s, c, from) ==
  IF from < 1 THEN 0
  ELSE IF s[from] = c THEN from
  ELSE LastIndexOf(s, c, from - 1)

RefChars == {"h", "g", "n", "t", "/", ":"}

\* reference.Parse(ref): (repository, tag, err).  A reference with a
\* character outside the grammar, or an empty one, is rejected; the tag is
\* what follows the last ':' when no '/' follows that ':'.
ReferenceParse(ref) ==
  IF ref = <<>> \/ \E i \in 1..Len(ref) : ref[i] \notin RefChars
  THEN [repository |-> <<>>, tag |-> <<>>, err |-> ReferenceParseError]
  ELSE LET colon == LastIndexOf(ref, ":", Len(ref))
           tagged == colon > 0 /\ IndexOf(ref, "/", colon) = 0
       IN  IF tagged
           THEN [repository |-> SubSeq(ref, 1, colon - 1),
                 tag |-> SubSeq(ref, colon + 1, Len(ref)),
                 err |-> NoErr]
           ELSE [repository |-> ref, tag |-> <<>>, err |-> NoErr]

\* strings.Split(s, "/")[0]
FirstPart(s) ==
  LET slash == IndexOf(s, "/", 1)
  IN  IF slash = 0 THEN s ELSE SubSeq(s, 1, slash - 1)

ParseServerAddress(ref) ==
  LET p == ReferenceParse(ref)
  IN  IF p.err # NoErr
      THEN [server |-> ref, err |-> p.err]
      ELSE [server |-> FirstPart(p.repository), err |-> NoErr]

-----------------------------------------------------------------------------
(* Credential stores *)

NativeStore(helper) == [kind |-> "native", helper |-> helper]
FileStore == [kind |-> "file", helper |-> ""]

CredentialsStoreHelperFirst(configFile, server) ==
  IF server \in DOMAIN configFile.CredentialHelpers
  THEN NativeStore(configFile.CredentialHelpers[server])
  ELSE IF configFile.CredentialsStore # ""
  THEN NativeStore(configFile.CredentialsStore)
  ELSE FileStore

CredentialsStore(configFile, server) ==
  IF configFile.CredentialsStore # ""
  THEN NativeStore(configFile.CredentialsStore)
  ELSE IF server \in DOMAIN configFile.CredentialHelpers
  THEN NativeStore(configFile.CredentialHelpers[server])
  ELSE FileStore

-----------------------------------------------------------------------------
(* Backends.  A world w is what a call can read: w.env, the environment;  *)
(* w.disk, the configuration directories; w.reply, what the selected      *)
(* credential store answers to Get during this call.                      *)

LoadEvent(dir, l) == [op |-> "Load", dir |-> dir, err |-> l.err]
SelectEvent(server, store) == [op |-> "CredentialsStore", server |-> server, store |-> store]
GetEvent(store, server, g) ==
  [op |-> "Get", store |-> store, server |-> server, auth |-> g.auth, err |-> g.err]
BackendEvent(i, b, r) ==
  [op |-> "backend", idx |-> i, kind |-> b.kind, auth |-> r.auth, err |-> r.err]
EncodeEvent(auth) == [op |-> "EncodeAuth", auth |-> auth]

\* cliconfig.Load(configDir)
Load(w, configDir) == w.disk[configDir]

\* credStore.Get(server)
StoreGet(w, credStore, server) == w.reply

authFromEnv(ref, w) ==
  LET username == Getenv(w.env, "REPO_USER")
      password == Getenv(w.env, "REPO_PASS")
  IN  IF username # "" /\ password # ""
      THEN [auth |-> Ptr(AuthConfig(username, password)), err |-> NoErr, trace |-> <<>>]
      ELSE [auth |-> NilAuth, err |-> NoErr, trace |-> <<>>]

IsEmptyAuthNever(auth) == FALSE

\* auth == (types.AuthConfig{})
IsEmptyAuth(auth) == auth = ZeroAuth

authFromDockerConfig(ref, w) ==
  LET parsed == ParseServerAddress(ref)
      server == parsed.server
      dirEnv == Getenv(w.env, "DOCKER_CONFIG")
      configDir == IF dirEnv = "" THEN "/" ELSE dirEnv
      loaded == Load(w, configDir)
  IN  IF loaded.err # NoErr
      THEN [auth |-> NilAuth, err |-> loaded.err,
            trace |-> <<LoadEvent(configDir, loaded)>>]
      ELSE LET credStore == CredentialsStore(loaded.configFile[1], server)
               got == StoreGet(w, credStore, server)
               trace == <<LoadEvent(configDir, loaded),
                          SelectEvent(server, credStore),
                          GetEvent(credStore, server, got)>>
           IN  IF IsEmptyAuth(got.auth)
               THEN [auth |-> NilAuth, err |-> NoErr, trace |-> trace]
               ELSE [auth |-> Ptr(got.auth), err |-> NoErr, trace |-> trace]

\* authBackend values: the two backends of the code, and fixed-result
\* functions standing for any other func(string) (*types.AuthConfig, error).
StubAuth == AuthConfig("x", "y")
StubError == "StubError"
EnvBackend == [kind |-> "env", auth |-> NilAuth, err |-> NoErr]
ConfigBackend == [kind |-> "docker", auth |-> NilAuth, err |-> NoErr]
StubBackends == [kind : {"stub"}, auth : {NilAuth, Ptr(StubAuth)}, err : {NoErr, StubError}]
Backends == {EnvBackend, ConfigBackend} \cup StubBackends

\* backend(repo)
Invoke(b, repo, w) ==
  CASE b.kind = "env" -> authFromEnv(repo, w)
    [] b.kind = "docker" -> authFromDockerConfig(repo, w)
    [] b.kind = "stub" -> [auth |-> b.auth, err |-> b.err, trace |-> <<>>]

DefinitiveAuthOnly(auth, err) == auth # NilAuth

\* auth != nil || err != nil
Definitive(auth, err) == auth # NilAuth \/ err # NoErr

RECURSIVE firstValidAuthFrom(_, _, _, _, _)
\* The loop of firstValidAuth from index i on, trace being what happened so far.
firstValidAuthFrom(repo, backends, w, i, trace) ==
  IF i > Len(backends)
  THEN [auth |-> NilAuth, err |-> NoErr, trace |-> trace]
  ELSE LET r == Invoke(backends[i], repo, w)
           t == trace \o r.trace \o <<BackendEvent(i, backends[i], r)>>
       IN  IF Definitive(r.auth, r.err)
           THEN [auth |-> r.auth, err |-> r.err, trace |-> t]
           ELSE firstValidAuthFrom(repo, backends, w, i + 1, t)

firstValidAuth(repo, backends, w) == firstValidAuthFrom(repo, backends, w, 1, <<>>)

-----------------------------------------------------------------------------
(* Encoder and top-level calls *)

\* command.EncodeAuthToBase64(auth): base64 of the JSON of auth, or the
\* marshalling error.
EncodeAuthToBase64(auth, fails) ==
  IF fails
  THEN [str |-> "", err |-> EncodingError]
  ELSE [str |-> "b64{" \o auth.Username \o ":" \o auth.Password \o "}", err |-> NoErr]

\* EncodeAuth dereferences its argument: a nil argument panics.
EncodeAuth(auth, fails) ==
  IF auth = NilAuth
  THEN [str |-> "", err |-> NoErr, panic |-> TRUE, trace |-> <<EncodeEvent(auth)>>]
  ELSE LET e == EncodeAuthToBase64(auth[1], fails)
       IN  [str |-> e.str, err |-> e.err, panic |-> FALSE, trace |-> <<EncodeEvent(auth)>>]

BackendsConfigFirst == <<ConfigBackend, EnvBackend>>

\* The list EncodedAuth hands to firstValidAuth.
DefaultBackends == <<EnvBackend, ConfigBackend>>

\* The branch of EncodedAuth on the chain's result; resolved.auth and
\* resolved.err are the locals auth and err.
EncodedAuthResult(resolved, fails) ==
  IF resolved.err # NoErr
  THEN [EncodeAuth(resolved.auth, fails) EXCEPT
          !.trace = resolved.trace \o @] @@ [auth |-> resolved.auth, chainErr |-> resolved.err]
  ELSE [str |-> "", err |-> resolved.err, panic |-> FALSE,
        auth |-> resolved.auth, chainErr |-> resolved.err,
        trace |-> resolved.trace]

EncodedAuth(ref, w, fails) ==
  EncodedAuthResult(firstValidAuth(ref, DefaultBackends, w), fails)

DefaultAuthHandlerRetrying ==
  [str |-> "b64{u:p}", err |-> NoErr, trace |-> <<EncodeEvent(Ptr(AuthConfig("u", "p")))>>]

DefaultAuthHandler == [str |-> "", err |-> NoErr, trace |-> <<>>]

-----------------------------------------------------------------------------
(* State machine.  pc is the caller's position: "idle" between calls,     *)
(* "returned" while it holds the result of the call recorded in last.     *)
(* The environment and the configuration directories are owned by others  *)
(* and change between calls.                                              *)

NoCall ==
  [op |-> "none", ref |-> <<>>, backends |-> <<>>, auth |-> NilAuth, chainErr |-> NoErr,
   str |-> "", err |-> NoErr, panic |-> FALSE, trace |-> <<>>,
   server |-> <<>>, store |-> FileStore, configFile |-> <<>>]

World(reply) == [env |-> env, disk |-> disk, reply |-> reply]

Init ==
  /\ env = [n \in EnvNames |-> ""]
  /\ disk = [d \in Dirs |-> LoadFailed]
  /\ pc = "idle"
  /\ last = NoCall

Setenv ==
  /\ pc = "idle"
  /\ \E n \in EnvNames : \E v \in EnvValues(n) :
       /\ env[n] # v
       /\ env' = [env EXCEPT ![n] = v]
  /\ UNCHANGED <<disk, pc, last>>

WriteConfig ==
  /\ pc = "idle"
  /\ \E d \in Dirs : \E l \in LoadResults :
       /\ disk[d] # l
       /\ disk' = [disk EXCEPT ![d] = l]
  /\ UNCHANGED <<env, pc, last>>

Returned(op, ref, backends, r) ==
  [NoCall EXCEPT !.op = op, !.ref = ref, !.backends = backends,
                 !.auth = r.auth, !.chainErr = r.chainErr,
                 !.str = r.str, !.err = r.err, !.panic = r.panic, !.trace = r.trace]

CallEncodedAuth ==
  /\ pc = "idle"
  /\ \E ref \in Refs : \E reply \in GetResults : \E fails \in BOOLEAN :
       last' = Returned("EncodedAuth", ref, DefaultBackends,
                        EncodedAuth(ref, World(reply), fails))
  /\ pc' = "returned"
  /\ UNCHANGED <<env, disk>>

BackendLists == UNION {[1..n -> Backends] : n \in 0..MaxBackends}

ChainResult(r) ==
  [str |-> "", err |-> r.err, panic |-> FALSE, auth |-> r.auth, chainErr |-> r.err,
   trace |-> r.trace]

CallFirstValidAuth ==
  /\ pc = "idle"
  /\ \E ref \in Refs : \E reply \in GetResults : \E backends \in BackendLists :
       last' = Returned("firstValidAuth", ref, backends,
                        ChainResult(firstValidAuth(ref, backends, World(reply))))
  /\ pc' = "returned"
  /\ UNCHANGED <<env, disk>>

CallParseServerAddress ==
  /\ pc = "idle"
  /\ \E ref \in Refs :
       LET r == ParseServerAddress(ref)
       IN  last' = [NoCall EXCEPT !.op = "ParseServerAddress", !.ref = ref,
                                  !.server = r.server, !.err = r.err]
  /\ pc' = "returned"
  /\ UNCHANGED <<env, disk>>

Servers == {ParseServerAddress(ref).server : ref \in Refs}

CallCredentialsStore ==
  /\ pc = "idle"
  /\ \E cf \in ConfigFiles : \E server \in Servers :
       last' = [NoCall EXCEPT !.op = "CredentialsStore", !.configFile = <<cf>>,
                              !.server = server,
                              !.store = CredentialsStore(cf, server)]
  /\ pc' = "returned"
  /\ UNCHANGED <<env, disk>>

CallEncodeAuth ==
  /\ pc = "idle"
  /\ \E auth \in {NilAuth, Ptr(ZeroAuth), Ptr(StoredAuth), Ptr(AuthConfig("u", "p"))} :
     \E fails \in BOOLEAN :
       LET r == EncodeAuth(auth, fails)
       IN  last' = [NoCall EXCEPT !.op = "EncodeAuth", !.auth = auth,
                                  !.str = r.str, !.err = r.err, !.panic = r.panic,
                                  !.trace = r.trace]
  /\ pc' = "returned"
  /\ UNCHANGED <<env, disk>>

CallDefaultAuthHandler ==
  /\ pc = "idle"
  /\ last' = [NoCall EXCEPT !.op = "DefaultAuthHandler",
                            !.str = DefaultAuthHandler.str,
                            !.err = DefaultAuthHandler.err,
                            !.trace = DefaultAuthHandler.trace]
  /\ pc' = "returned"
  /\ UNCHANGED <<env, disk>>

\* The caller is done with the result.
Return ==
  /\ pc = "returned"
  /\ pc' = "idle"
  /\ last' = NoCall
  /\ UNCHANGED <<env, disk>>

Next ==
  \/ Setenv
  \/ WriteConfig
  \/ CallEncodedAuth
  \/ CallFirstValidAuth
  \/ CallParseServerAddress
  \/ CallCredentialsStore
  \/ CallEncodeAuth
  \/ CallDefaultAuthHandler
  \/ Return

Spec == Init /\ [][Next]_vars

-----------------------------------------------------------------------------
(* Properties.  While pc = "returned" the environment and the directories *)
(* are those the call recorded in last has read.                          *)

EnvCredentialsSet == env["REPO_USER"] # "" /\ env["REPO_PASS"] # ""
ConfigDirNow == IF env["DOCKER_CONFIG"] = "" THEN "/" ELSE env["DOCKER_CONFIG"]
LoadedNow == disk[ConfigDirNow]

\* last is the result of the chain [EnvBackend, ConfigBackend].
ChainReturned ==
  /\ pc = "returned"
  /\ \/ last.op = "EncodedAuth"
     \/ last.op = "firstValidAuth" /\ last.backends = <<EnvBackend, ConfigBackend>>

Events(op) == SelectSeq(last.trace, LAMBDA e : e.op = op)
BackendEvents == Events("backend")
Absent(e) == e.auth = NilAuth /\ e.err = NoErr

\* C1: whenever the chain [EnvBackend, ConfigBackend] resolves a credential
\* with nil error, EncodedAuth returns the Encoder's string for exactly that
\* credential together with the Encoder's error, not an empty string.
C1_EncodedAuthReturnsEncoding ==
  (pc = "returned" /\ last.op = "EncodedAuth"
     /\ last.auth # NilAuth /\ last.chainErr = NoErr)
  => /\ ~last.panic
     /\ \E fails \in BOOLEAN :
          /\ last.str = EncodeAuthToBase64(last.auth[1], fails).str
          /\ last.err = EncodeAuthToBase64(last.auth[1], fails).err
     /\ last.err = NoErr => last.str # ""

\* C2: if REPO_USER and REPO_PASS are both non-empty, the chain returns
\* exactly {REPO_USER, REPO_PASS} with nil error and the config backend is
\* never invoked: no config load, no store selection, no store lookup.
C2_EnvCredentialsShortCircuit ==
  (ChainReturned /\ EnvCredentialsSet)
  => /\ last.auth = Ptr(AuthConfig(env["REPO_USER"], env["REPO_PASS"]))
     /\ last.chainErr = NoErr
     /\ \A i \in 1..Len(last.trace) :
          /\ last.trace[i].op \notin {"Load", "CredentialsStore", "Get"}
          /\ last.trace[i].op = "backend" => last.trace[i].kind # "docker"

C2_Witness ==
  /\ ChainReturned /\ last.op = "EncodedAuth"
  /\ EnvCredentialsSet
  /\ LoadedNow.err # NoErr
  /\ last.auth = Ptr(AuthConfig("u", "p"))
  /\ Len(BackendEvents) = 1

\* C3: if the configuration file cannot be loaded and the env backend
\* yields absent, the chain returns a nil credential and the load error.
C3_LoadErrorNotMasked ==
  (ChainReturned /\ ~EnvCredentialsSet /\ LoadedNow.err # NoErr)
  => /\ last.auth = NilAuth
     /\ last.chainErr # NoErr
     /\ last.chainErr = LoadedNow.err

C3_Witness ==
  /\ ChainReturned /\ last.op = "firstValidAuth"
  /\ env["REPO_USER"] = "u" /\ env["REPO_PASS"] = ""
  /\ LoadedNow.err = ConfigLoadError
  /\ last.chainErr = ConfigLoadError
  /\ Len(BackendEvents) = 2

\* C4: under every environment and configuration state EncodedAuth returns
\* a (string, error) result without panicking, and the Encoder is never
\* invoked with a nil credential.
C4_EncodedAuthNeverPanics ==
  (pc = "returned" /\ last.op = "EncodedAuth")
  => /\ ~last.panic
     /\ \A i \in 1..Len(last.trace) :
          last.trace[i].op = "EncodeAuth" => last.trace[i].auth # NilAuth

\* C5: if the env credentials are unset or empty, the config file loads and
\* the selected store returns the all-zero credential for the server, the
\* chain returns absent with nil error.
C5_ZeroCredentialIsAbsent ==
  (ChainReturned /\ ~EnvCredentialsSet /\ LoadedNow.err = NoErr
     /\ \E i \in 1..Len(last.trace) :
          /\ last.trace[i].op = "Get"
          /\ last.trace[i].auth = ZeroAuth
          /\ last.trace[i].err = NoErr)
  => /\ last.auth = NilAuth
     /\ last.chainErr = NoErr

C5_Witness ==
  /\ ChainReturned /\ last.op = "firstValidAuth"
  /\ ~EnvCredentialsSet /\ LoadedNow.err = NoErr
  /\ Len(Events("Get")) = 1
  /\ Events("Get")[1].auth = ZeroAuth /\ Events("Get")[1].err = NoErr
  /\ last.auth = NilAuth /\ last.chainErr = NoErr

\* The store the priority rule of C6 picks.
ExpectedStore(cf, server) ==
  CASE cf.CredentialsStore # "" -> NativeStore(cf.CredentialsStore)
    [] cf.CredentialsStore = "" /\ server \in DOMAIN cf.CredentialHelpers
         -> NativeStore(cf.CredentialHelpers[server])
    [] cf.CredentialsStore = "" /\ server \notin DOMAIN cf.CredentialHelpers
         -> FileStore

\* C6: store selection has strict priority: a non-empty global
\* CredentialsStore gives the native store of that name even when the server
\* has a helper entry; otherwise a helper entry for the server gives the
\* native store of that helper; otherwise the file store.  This holds of a
\* direct call and of the selection made inside the config backend.
C6_StoreSelectionPriority ==
  /\ (pc = "returned" /\ last.op = "CredentialsStore")
       => last.store = ExpectedStore(last.configFile[1], last.server)
  /\ (pc = "returned" /\ last.op \in {"EncodedAuth", "firstValidAuth"})
       => \A i \in 1..Len(last.trace) :
            last.trace[i].op = "CredentialsStore"
            => /\ LoadedNow.err = NoErr
               /\ last.trace[i].store =
                    ExpectedStore(LoadedNow.configFile[1], last.trace[i].server)

C6_Witness ==
  /\ pc = "returned" /\ last.op = "CredentialsStore"
  /\ last.configFile[1].CredentialsStore = "osxkeychain"
  /\ last.server \in DOMAIN last.configFile[1].CredentialHelpers
  /\ last.store = NativeStore("osxkeychain")

\* C7: DefaultAuthHandler returns the empty string and a nil error on every
\* invocation, whatever the environment and configuration are, and invokes
\* no backend, config load, store lookup or encoder.
C7_RejectionHandlerDeclines ==
  (pc = "returned" /\ last.op = "DefaultAuthHandler")
  => /\ last.str = ""
     /\ last.err = NoErr
     /\ ~last.panic
     /\ last.trace = <<>>

C7_Witness ==
  /\ pc = "returned" /\ last.op = "DefaultAuthHandler"
  /\ EnvCredentialsSet
  /\ LoadedNow.err = NoErr
  /\ last.str = ""

\* C8: if the selected store's Get(server) fails, the config backend
\* returns that same error, so the chain returns a non-nil error; a lookup
\* error never becomes (absent, nil) or (credential, nil).
C8_StoreErrorPropagated ==
  (pc = "returned" /\ last.op \in {"EncodedAuth", "firstValidAuth"})
  => \A i \in 1..Len(last.trace) :
       (last.trace[i].op = "Get" /\ last.trace[i].err # NoErr)
       => \E j \in (i + 1)..Len(last.trace) :
            /\ last.trace[j].op = "backend"
            /\ last.trace[j].kind = "docker"
            /\ last.trace[j].err = last.trace[i].err

\* C9: firstValidAuth invokes the backends in list order, each at most
\* once, stops at the first one whose result has a credential or an error,
\* returns exactly that result and invokes no later backend; it returns
\* (absent, nil) exactly when every backend of the list returned
\* (absent, nil).
C9_FirstDefinitiveResultWins ==
  (pc = "returned" /\ last.op = "firstValidAuth")
  => LET inv == BackendEvents
         k == Len(inv)
         n == Len(last.backends)
     IN  /\ k <= n
         /\ \A j \in 1..k :
              /\ inv[j].idx = j
              /\ inv[j].kind = last.backends[j].kind
              /\ last.backends[j].kind = "stub"
                   => /\ inv[j].auth = last.backends[j].auth
                      /\ inv[j].err = last.backends[j].err
         /\ \A j \in 1..(k - 1) : Absent(inv[j])
         /\ k < n => (k >= 1 /\ ~Absent(inv[k]))
         /\ (k >= 1 /\ ~Absent(inv[k]))
              => (last.auth = inv[k].auth /\ last.err = inv[k].err)
         /\ (last.auth = NilAuth /\ last.err = NoErr)
              <=> (k = n /\ \A j \in 1..k : Absent(inv[j]))

C9_Witness ==
  /\ pc = "returned" /\ last.op = "firstValidAuth"
  /\ Len(last.backends) = 2
  /\ last.backends[1].kind = "stub"
  /\ last.backends[1].auth = NilAuth /\ last.backends[1].err = StubError
  /\ last.backends[2].auth = Ptr(StubAuth)
  /\ Len(BackendEvents) = 1
  /\ last.auth = NilAuth /\ last.err = StubError

\* C10: if parsing the repository reference fails, the config backend
\* returns the parse error to its caller, while the raw reference is the
\* server for store selection and lookup.
C10_ParseErrorPropagated ==
  (pc = "returned" /\ last.op \in {"EncodedAuth", "firstValidAuth"}
     /\ ReferenceParse(last.ref).err # NoErr)
  => \A i \in 1..Len(last.trace) :
       /\ (last.trace[i].op = "backend" /\ last.trace[i].kind = "docker")
            => /\ last.trace[i].err # NoErr
               /\ LoadedNow.err = NoErr
                    => last.trace[i].err = ReferenceParse(last.ref).err
       /\ last.trace[i].op \in {"CredentialsStore", "Get"}
            => last.trace[i].server = last.ref

====
